---- MODULE Spec2Model ----
(***************************************************************************)
(* Model of GN's NinjaBinaryTargetWriter: the emission of the ninja build  *)
(* edges of one binary target (compile edges, precompiled-header edges,    *)
(* link / archive / stamp edge) and the Scheduler's failure flag.          *)
(*                                                                         *)
(* The repository's source at hand is the writer's unit test               *)
(* (tools/gn/ninja_binary_target_writer_unittest.cc): the fixtures, the    *)
(* tool output template and the expected outputs are taken from it.  The   *)
(* writer's own algorithm is modelled from the specification and is        *)
(* required to reproduce the outputs the unit test expects.                *)
(*                                                                         *)
(* Paths and text are kept symbolic: a path is a record of the parts the   *)
(* substitution patterns put together, an edge is a record of the fields   *)
(* of a "build OUT: RULE IN | IMPLICIT || ORDER_ONLY" line.                *)
(***************************************************************************)
EXTENDS Integers, Sequences, FiniteSets, TLC

\* ------------------------------------------------------------------------
\* Bounds of the model
\* ------------------------------------------------------------------------

\* Longest sources() list of the target being written.
MaxSources == 2

\* Longest public_deps() list of the target being written.
MaxDeps == 2

\* ------------------------------------------------------------------------
\* Sequence helpers
\* ------------------------------------------------------------------------

Range(s) == { s[i] : i \in 1..Len(s) }

NoDuplicates(s) == \A i, j \in 1..Len(s) : s[i] = s[j] => i = j

\* UniqueVector::push_back: appends unless already present.
AppendUnique(s, x) == IF x \in Range(s) THEN s ELSE Append(s, x)

RECURSIVE AppendAllUnique(_, _)
AppendAllUnique(s, xs) ==
  IF xs = <<>> THEN s
  ELSE AppendAllUnique(AppendUnique(s, Head(xs)), Tail(xs))

\* Sequences over S of length at most n.
SeqsUpTo(S, n) == UNION { [1..k -> S] : k \in 0..n }

\* Sequences over S of length at most n without a repeated element.
InjSeqsUpTo(S, n) == { s \in SeqsUpTo(S, n) : NoDuplicates(s) }

\* ------------------------------------------------------------------------
\* Source files of the fixtures
\* ------------------------------------------------------------------------

\* SourceFile("//<dir>/<stem>.<ext>")
SourceFile(dir, stem, ext) == [dir |-> dir, stem |-> stem, ext |-> ext]

NoFile == [dir |-> "", stem |-> "", ext |-> ""]

\* The sources a written target may list: C++ and C sources, object files
\* passed through, assembly with a recognised and an unrecognised
\* extension, two sources sharing a stem in one directory, and two sources
\* sharing a stem in different directories.
SourceUniverse ==
  { SourceFile("foo", "input1", "cc"),
    SourceFile("foo", "input2", "c"),
    SourceFile("foo", "input1", "c"),
    SourceFile("build", "input1", "cc"),
    SourceFile("foo", "input3", "o"),
    SourceFile("foo", "input5", "asm"),
    SourceFile("foo", "input8", "S") }

\* config_values().set_precompiled_source(SourceFile("//build/precompile.cc"))
PrecompiledSource == SourceFile("build", "precompile", "cc")

\* The GCC test gives the header itself:
\* set_precompiled_source(SourceFile("//build/precompile.h"))
PrecompiledSourceGCC == SourceFile("build", "precompile", "h")

\* config_values().set_precompiled_header("build/precompile.h")
PrecompiledHeader == "build/precompile.h"

\* ------------------------------------------------------------------------
\* Targets and the dependency graph
\* ------------------------------------------------------------------------

\* Target::OutputType values used by the fixtures.
BinaryTypes ==
  { "EXECUTABLE", "SHARED_LIBRARY", "LOADABLE_MODULE", "STATIC_LIBRARY",
    "SOURCE_SET" }

LeafTypes ==
  { "EXECUTABLE", "SHARED_LIBRARY", "LOADABLE_MODULE", "ACTION_FOREACH" }

\* Handles of the targets of the graph: a leaf (a data dependency, a
\* linking dependency or an action), two source sets, and the two targets
\* that are written.
DataT == 1
InterT == 2
BarT == 3
TopT == 4
TwinT == 5

TargetIds == { DataT, InterT, BarT, TopT, TwinT }

\* A Target as the fixtures build it: Target(settings, Label(dir, name)),
\* set_output_type, sources(), public_deps(), data_deps(),
\* set_output_extension, set_complete_static_lib, and the precompiled
\* header of config_values().  extension_set records that
\* set_output_extension was called; the target itself keeps only the string.
Target(name, type) ==
  [ name |-> name, dir |-> "foo", output_type |-> type, sources |-> <<>>,
    deps |-> <<>>, data_deps |-> <<>>, output_extension |-> "",
    extension_set |-> FALSE, complete_static_lib |-> FALSE,
    has_precompiled_header |-> FALSE, precompiled_source |-> NoFile ]

\* Every library counted as final, complete or not.
IsFinalEveryLibrary(t) ==
  t.output_type \in { "EXECUTABLE", "SHARED_LIBRARY", "LOADABLE_MODULE",
                      "STATIC_LIBRARY" }

\* Target::IsFinal(): the output kinds that link their dependencies in.
IsFinal(t) ==
  \/ t.output_type \in { "EXECUTABLE", "SHARED_LIBRARY", "LOADABLE_MODULE" }
  \/ t.output_type = "STATIC_LIBRARY" /\ t.complete_static_lib

\* ------------------------------------------------------------------------
\* Paths
\* ------------------------------------------------------------------------

\* A path of the build: kind tells the root it is relative to
\*   "obj"     obj/<dir>/<prefix><name>.<part>.<ext>   (tool outputs)
\*   "src"     ../../<dir>/<part>.<ext>                (a source file)
\*   "stamp"   obj/<dir>/<name>.stamp
\*   "root"    ./<prefix><name><ext>                   (link outputs)
\*   "target"  obj/<dir>/<prefix><name><ext>           (archive outputs)
Path(kind, dir, prefix, name, part, ext) ==
  [ kind |-> kind, dir |-> dir, prefix |-> prefix, name |-> name,
    part |-> part, ext |-> ext ]

\* target_output_name: the short name, with "lib" in front for the library
\* kinds.
OutputNamePrefix(t) ==
  IF t.output_type \in { "SHARED_LIBRARY", "STATIC_LIBRARY", "LOADABLE_MODULE" }
  THEN "lib" ELSE ""

\* A template that keeps the extension of the source in its output, so
\* that input1.cc and input1.c of one directory get two paths.
ObjectPathKeepingExtension(t, f) ==
  Path("obj", f.dir, OutputNamePrefix(t), t.name, f.stem, f.ext)

\* Tool outputs of the compilers:
\* "{{source_out_dir}}/{{target_output_name}}.{{source_name_part}}.o"
ObjectPath(t, f) ==
  Path("obj", f.dir, OutputNamePrefix(t), t.name, f.stem, "o")

\* A source file written as an input of an edge ("../../foo/input3.o").
SourcePath(f) == Path("src", f.dir, "", "", f.stem, f.ext)

\* obj/<dir>/<name>.stamp
StampFile(t) == Path("stamp", t.dir, "", t.name, "", "stamp")

\* ------------------------------------------------------------------------
\* Source classification and tools
\* ------------------------------------------------------------------------

\* A classification that takes an extension in either case: .S as .s.
GetSourceFileTypeIgnoringCase(f) ==
  CASE f.ext \in { "cc", "cpp", "cxx" } -> "CPP"
    [] f.ext = "c" -> "C"
    [] f.ext \in { "asm", "s", "arm", "S" } -> "ASM"
    [] f.ext \in { "o", "obj" } -> "O"
    [] OTHER -> "UNKNOWN"

\* GetSourceFileType: by the extension, case-sensitively.
GetSourceFileType(f) ==
  CASE f.ext \in { "cc", "cpp", "cxx" } -> "CPP"
    [] f.ext = "c" -> "C"
    [] f.ext \in { "asm", "s", "arm" } -> "ASM"
    [] f.ext \in { "o", "obj" } -> "O"
    [] OTHER -> "UNKNOWN"

\* The source kinds a tool compiles.
IsCompiled(f) == GetSourceFileType(f) \in { "CPP", "C", "ASM" }

\* The rule of the tool that compiles a source kind.
CompileRule(type) ==
  CASE type = "CPP" -> "cxx" [] type = "C" -> "cc" [] type = "ASM" -> "asm"
    [] OTHER -> ""

\* The rule of the final edge of an output kind.
FinalRule(t) ==
  CASE t.output_type = "EXECUTABLE" -> "link"
    [] t.output_type = "SHARED_LIBRARY" -> "solink"
    [] t.output_type = "LOADABLE_MODULE" -> "solink_module"
    [] t.output_type = "STATIC_LIBRARY" -> "alink"
    [] OTHER -> "stamp"

\* The languages that can have a precompiled header, in the order their
\* edges are written.
PchLanguages == << "C", "CPP" >>

\* Tool::PrecompiledHeaderType
PchTypes == { "PCH_NONE", "PCH_MSVC", "PCH_GCC" }

\* ------------------------------------------------------------------------
\* Output extension and the final output
\* ------------------------------------------------------------------------

\* The extension strings a fixture passes to set_output_extension.
ExtensionOverrides == { "", "so.6" }

\* The override written as it was given, without the dot.
WithoutDot(e) == e

\* An extension with its dot, as it is written: "so.6" gives ".so.6", the
\* empty string stays empty.
WithDot(e) ==
  CASE e = "" -> "" [] e = "so.6" -> ".so.6" [] e = "so" -> ".so"
    [] OTHER -> e

\* The tool's default_output_extension for an output kind.
DefaultOutputExtension(t) ==
  IF t.output_type \in { "SHARED_LIBRARY", "LOADABLE_MODULE" } THEN ".so"
  ELSE ""

\* An override that takes the call of set_output_extension for the
\* decision, so that an empty string set on purpose means no extension.
OutputExtensionBySetFlag(t) ==
  IF t.extension_set THEN WithDot(t.output_extension)
  ELSE DefaultOutputExtension(t)

\* {{output_extension}}: the target's override when its string is not
\* empty, else the tool's default.
OutputExtension(t) ==
  IF t.output_extension = "" THEN DefaultOutputExtension(t)
  ELSE WithDot(t.output_extension)

\* The final output of a linking target: the linkers write
\* {{root_out_dir}}/{{target_output_name}}{{output_extension}}, the archiver
\* {{target_out_dir}}/{{target_output_name}}.a
LinkOutput(t) ==
  IF t.output_type = "STATIC_LIBRARY"
  THEN Path("target", t.dir, OutputNamePrefix(t), t.name, "", ".a")
  ELSE Path("root", ".", OutputNamePrefix(t), t.name, "", OutputExtension(t))

\* The linked file named for every dependency but a source set, for an
\* action as well.
PrimaryOutputOfLinker(t) ==
  IF t.output_type = "SOURCE_SET" THEN StampFile(t) ELSE LinkOutput(t)

\* The output a dependent names for a target it depends on: the stamp of a
\* source set or an action, the linked file of the others.
PrimaryOutput(t) ==
  IF t.output_type \in { "SOURCE_SET", "ACTION_FOREACH" } THEN StampFile(t)
  ELSE LinkOutput(t)

\* ------------------------------------------------------------------------
\* Objects of a target and the traversal of its dependencies
\* ------------------------------------------------------------------------

\* The objects a target's own sources contribute to a final edge, in the
\* order of sources(): the tool output of a compiled source, an object file
\* under its own path, nothing for the rest.
RECURSIVE OwnObjects(_, _)
OwnObjects(t, srcs) ==
  IF srcs = <<>> THEN <<>>
  ELSE LET f == Head(srcs)
           first == IF IsCompiled(f) THEN << ObjectPath(t, f) >>
                    ELSE IF GetSourceFileType(f) = "O" THEN << SourcePath(f) >>
                    ELSE <<>>
       IN first \o OwnObjects(t, Tail(srcs))

\* What the traversal of dependencies gathers: the objects of the source
\* sets (extra_object_files) and the order-only inputs (non_linkable_deps).
NoDeps == [ objs |-> <<>>, order_only |-> <<>> ]

\* Depth-first traversal of the dependency edges in the order they were
\* declared.  A source set contributes its objects (when the target being
\* written links them in) and its stamp, and the traversal goes on into its
\* own dependencies before the next sibling; any other dependency
\* contributes its primary output as an order-only input and is not entered.
RECURSIVE VisitDeps(_, _, _, _)
VisitDeps(g, deps, can_link, acc) ==
  IF deps = <<>> THEN acc
  ELSE LET dt == g[Head(deps)]
           here ==
             IF dt.output_type = "SOURCE_SET"
             THEN VisitDeps(g, dt.deps, can_link,
                    [ objs |-> IF can_link
                               THEN AppendAllUnique(acc.objs,
                                                    OwnObjects(dt, dt.sources))
                               ELSE acc.objs,
                      order_only |-> AppendUnique(acc.order_only,
                                                  StampFile(dt)) ])
             ELSE [ acc EXCEPT !.order_only =
                                  AppendUnique(@, PrimaryOutput(dt)) ]
       IN VisitDeps(g, Tail(deps), can_link, here)

\* The primary outputs of a list of targets, in order.
RECURSIVE OutputsOf(_, _)
OutputsOf(g, ids) ==
  IF ids = <<>> THEN <<>>
  ELSE << PrimaryOutput(g[Head(ids)]) >> \o OutputsOf(g, Tail(ids))

\* GetDeps of the target being written: the traversal of its linked
\* dependencies, then its data dependencies as order-only inputs.
GetDeps(g, t) ==
  LET linked == VisitDeps(g, t.deps, IsFinal(t), NoDeps)
  IN [ objs |-> linked.objs,
       order_only |-> AppendAllUnique(linked.order_only,
                                      OutputsOf(g, t.data_deps)) ]

\* The order-only inputs of a target's compile edges: the stamps of the
\* actions it depends on.
RECURSIVE InputDeps(_, _)
InputDeps(g, deps) ==
  IF deps = <<>> THEN <<>>
  ELSE (IF g[Head(deps)].output_type = "ACTION_FOREACH"
        THEN << StampFile(g[Head(deps)]) >> ELSE <<>>)
       \o InputDeps(g, Tail(deps))

\* ------------------------------------------------------------------------
\* Precompiled headers
\* ------------------------------------------------------------------------

\* Whether a source of the language is among the target's sources.
LanguageUsed(t, lang) ==
  \E i \in 1..Len(t.sources) : GetSourceFileType(t.sources[i]) = lang

\* Whether the target gets a precompiled-header edge for the language
\* under toolchain tc (the precompiled_header_type of its two compilers).
PchActive(t, tc, lang) ==
  /\ t.has_precompiled_header
  /\ tc[lang] # "PCH_NONE"
  /\ LanguageUsed(t, lang)

\* The output of the precompiled-header edge of a language:
\*   MSVC  obj/build/<name>.precompile.c.o   and  ...precompile.cc.o
\*   GCC   obj/build/<name>.precompile.h-c.gch and ...precompile.h-cc.gch
PchOutput(t, tc, lang) ==
  LET ext == IF tc[lang] = "PCH_MSVC"
             THEN (IF lang = "C" THEN "c.o" ELSE "cc.o")
             ELSE (IF lang = "C" THEN "h-c.gch" ELSE "h-cc.gch")
  IN Path("obj", t.precompiled_source.dir, OutputNamePrefix(t), t.name,
          t.precompiled_source.stem, ext)

\* ------------------------------------------------------------------------
\* Build edges
\* ------------------------------------------------------------------------

\* One block of the written text.  section is "vars" for the block of
\* variables, "compile", "pch" or "final" for
\*   build <output>: <rule> <inputs> | <implicit> || <order_only>
\* and vars are the variables written under it.
Edge(section, rule, output, inputs, implicit, order_only, vars) ==
  [ section |-> section, rule |-> rule, output |-> output,
    inputs |-> inputs, implicit |-> implicit, order_only |-> order_only,
    vars |-> vars ]

NoPath == Path("", "", "", "", "", "")

\* The block of variables: target_output_name, and for each language with a
\* precompiled header the flag that uses it.
VarsBlock(t, tc) ==
  Edge("vars", "", NoPath, <<>>, <<>>, <<>>,
       { << "target_output_name", OutputNamePrefix(t), t.name >> }
       \cup { << "use_pch", lang, PrecompiledHeader >> :
                lang \in { l \in Range(PchLanguages) : PchActive(t, tc, l) } })

\* The edge that builds the precompiled header of a language.
PchEdge(t, tc, lang) ==
  Edge("pch", CompileRule(lang), PchOutput(t, tc, lang),
       << SourcePath(t.precompiled_source) >>, <<>>, <<>>,
       { << "source_name_part", t.precompiled_source.stem, "" >>,
         << IF tc[lang] = "PCH_MSVC" THEN "/Yc" ELSE "-x", lang,
            PrecompiledHeader >> })

\* A compile edge that takes the precompiled header after "||", as an
\* order-only input.
CompileEdgePchOrderOnly(t, f, pch_deps, order_only) ==
  Edge("compile", CompileRule(GetSourceFileType(f)), ObjectPath(t, f),
       << SourcePath(f) >>, <<>>, order_only \o pch_deps,
       { << "source_name_part", f.stem, "" >> })

\* The compile edge of one source: the tool's rule, the object it writes,
\* the precompiled header of its language as an implicit input, the input
\* dependencies as order-only inputs.
CompileEdge(t, f, pch_deps, order_only) ==
  Edge("compile", CompileRule(GetSourceFileType(f)), ObjectPath(t, f),
       << SourcePath(f) >>, pch_deps, order_only,
       { << "source_name_part", f.stem, "" >> })

\* A stamp edge that leaves out what comes after "||".
StampEdgeWithoutOrderOnly(t, inputs, order_only) ==
  Edge("final", "stamp", StampFile(t), inputs, <<>>, <<>>, {})

\* The stamp edge of a source set.
StampEdge(t, inputs, order_only) ==
  Edge("final", "stamp", StampFile(t), inputs, <<>>, order_only, {})

\* The link or archive edge, with output_extension written under it.
LinkEdge(t, inputs, order_only) ==
  Edge("final", FinalRule(t), LinkOutput(t), inputs, <<>>, order_only,
       { << "output_extension", OutputExtension(t), "" >> })

\* ------------------------------------------------------------------------
\* State
\* ------------------------------------------------------------------------

VARIABLES
  targets,     \* the resolved target graph: handle -> Target
  toolchain,   \* precompiled_header_type of the C and the C++ compiler
  writers,     \* the targets being written, one writer each
  ws,          \* per writer: where Run() is, its lists, the text written
  scheduler,   \* Scheduler: is_failed and the error it keeps
  reported     \* the errors handed to FailWithError, in the order applied

vars == << targets, toolchain, writers, ws, scheduler, reported >>

\* An Err: the target and the object path it is about.
Err(id, path) == [ target |-> id, path |-> path ]

NoErr == Err(0, NoPath)

\* A writer before Run().
NewWriter ==
  [ pc |-> "vars", pchi |-> 1, idx |-> 1, obj_files |-> <<>>,
    pch_obj_files |-> <<>>, pch_deps |-> [ C |-> <<>>, CPP |-> <<>> ],
    out |-> <<>>, err |-> NoErr ]

\* ------------------------------------------------------------------------
\* The fixtures: target graphs and toolchains
\* ------------------------------------------------------------------------

\* The binary output kinds with the complete_static_lib flag of each.
WrittenKinds ==
  { << type, FALSE >> : type \in BinaryTypes }
  \cup { << "STATIC_LIBRARY", TRUE >> }

\* A written target: its kind, sources, dependencies, extension override
\* (set tells whether set_output_extension is called) and whether it
\* declares a precompiled header.
Written(name, kind, sources, deps, data_deps, set, ext, pch) ==
  [ Target(name, kind[1]) EXCEPT
      !.complete_static_lib = kind[2], !.sources = sources, !.deps = deps,
      !.data_deps = data_deps, !.extension_set = set,
      !.output_extension = ext, !.has_precompiled_header = pch,
      !.precompiled_source = IF pch THEN PrecompiledSource ELSE NoFile ]

\* A written target with nothing set but its kind.
Plain(name) == Target(name, "EXECUTABLE")

\* The leaf of the graph: a data dependency, a linking dependency or an
\* action, by its type.
Leaf(leaf_type) == Target("data_target", leaf_type)

\* The source set "inter", with the leaf as its data dependency.
Inter ==
  [ Target("inter", "SOURCE_SET") EXCEPT
      !.sources = << SourceFile("foo", "inter", "cc") >>,
      !.data_deps = << DataT >> ]

\* The source set "bar": a compiled source, an object file and a source
\* that is skipped; it depends on what bar_deps says.
Bar(bar_deps) ==
  [ Target("bar", "SOURCE_SET") EXCEPT
      !.sources = << SourceFile("foo", "input1", "cc"),
                     SourceFile("foo", "input4", "obj"),
                     SourceFile("foo", "input8", "S") >>,
      !.deps = bar_deps ]

\* A graph of five targets.
Graph(data, inter, bar, top, twin) ==
  [ id \in TargetIds |->
      CASE id = DataT -> data
        [] id = InterT -> inter
        [] id = BarT -> bar
        [] id = TopT -> top
        [] OTHER -> twin ]

BarDeps == { <<>>, << InterT >> }

\* A toolchain without precompiled headers, and all toolchains.
NoPchToolchain == [ C |-> "PCH_NONE", CPP |-> "PCH_NONE" ]

Toolchains == [ { "C", "CPP" } -> PchTypes ]

\* Two sources: enough to tell the order of a target's own objects.
FewSources ==
  { SourceFile("foo", "input1", "cc"), SourceFile("foo", "input3", "o") }

\* A fixture in the state: the graph and the toolchain.
Fixture(g, tc) == targets = g /\ toolchain = tc

\* Fixtures about dependencies: every kind, every list of dependencies.
DepsFixtures ==
  \E leaf \in LeafTypes, bar_deps \in BarDeps, kind \in WrittenKinds,
     sources \in SeqsUpTo(FewSources, MaxSources),
     deps \in InjSeqsUpTo({ DataT, InterT, BarT }, MaxDeps),
     data_deps \in { <<>>, << DataT >> } :
    Fixture(Graph(Leaf(leaf), Inter, Bar(bar_deps),
                  Written("top", kind, sources, deps, data_deps, FALSE, "",
                          FALSE),
                  Plain("twin")),
            NoPchToolchain)

\* Fixtures about sources: every list of sources.
SourcesFixtures ==
  \E kind \in WrittenKinds, sources \in SeqsUpTo(SourceUniverse, MaxSources),
     deps \in { <<>>, << BarT >> } :
    Fixture(Graph(Leaf("EXECUTABLE"), Inter, Bar(<< InterT >>),
                  Written("top", kind, sources, deps, <<>>, FALSE, "", FALSE),
                  Plain("twin")),
            NoPchToolchain)

\* Fixtures about precompiled headers: every toolchain, with and without a
\* precompiled header declared.
PchFixtures ==
  \E type \in { "SOURCE_SET", "EXECUTABLE" },
     sources \in SeqsUpTo(SourceUniverse, MaxSources),
     tc \in Toolchains, pch \in BOOLEAN :
    Fixture(Graph(Leaf("EXECUTABLE"), Inter, Bar(<<>>),
                  Written("top", << type, FALSE >>, sources, <<>>, <<>>,
                          FALSE, "", pch),
                  Plain("twin")),
            tc)

\* Fixtures about the output extension: unset, set to the empty string, set
\* to "so.6".
ExtensionFixtures ==
  \E kind \in WrittenKinds, sources \in SeqsUpTo(FewSources, MaxSources),
     deps \in { <<>>, << DataT >> },
     set \in { << FALSE, "" >> } \cup { << TRUE, e >> : e \in ExtensionOverrides } :
    Fixture(Graph(Leaf("ACTION_FOREACH"), Inter, Bar(<<>>),
                  Written("top", kind, sources, deps, <<>>, set[1], set[2],
                          FALSE),
                  Plain("twin")),
            NoPchToolchain)

\* One source of every extension the unit test lists.
ClassifiedSources ==
  { SourceFile("foo", "input1", "cc"), SourceFile("foo", "input2", "cpp"),
    SourceFile("foo", "input9", "cxx"), SourceFile("foo", "input0", "c"),
    SourceFile("foo", "input3", "o"), SourceFile("foo", "input4", "obj"),
    SourceFile("foo", "input5", "asm"), SourceFile("foo", "input6", "s"),
    SourceFile("foo", "input7", "arm"), SourceFile("foo", "input8", "S") }

\* Fixtures about the kinds of sources: a target that stamps and one that
\* links, with every list of such sources.
ClassificationFixtures ==
  \E type \in { "SOURCE_SET", "SHARED_LIBRARY" },
     sources \in SeqsUpTo(ClassifiedSources, MaxSources) :
    Fixture(Graph(Leaf("EXECUTABLE"), Inter, Bar(<<>>),
                  Written("top", << type, FALSE >>, sources, <<>>, <<>>,
                          FALSE, "", FALSE),
                  Plain("twin")),
            NoPchToolchain)

\* The kinds of a dependency that is not entered: the targets that link or
\* archive, and the actions.
LinkingDepTypes == LeafTypes \cup { "STATIC_LIBRARY" }

\* A dependency with a source and a source set of its own, as the loadable
\* module of the unit test has its sources.cc.
LinkingDep(dep_type) ==
  [ Target("data_target", dep_type) EXCEPT
      !.sources = << SourceFile("foo", "sources", "cc") >>,
      !.deps = << BarT >> ]

\* Fixtures about dependencies that link: the written target reaches the
\* source set bar only through such a dependency.
LinkingDepsFixtures ==
  \E dep_type \in LinkingDepTypes, kind \in WrittenKinds,
     sources \in SeqsUpTo(FewSources, MaxSources),
     deps \in InjSeqsUpTo({ DataT, InterT }, MaxDeps) :
    Fixture(Graph(LinkingDep(dep_type), Inter, Bar(<<>>),
                  Written("top", kind, sources, deps, <<>>, FALSE, "",
                          FALSE),
                  Plain("twin")),
            NoPchToolchain)

\* ------------------------------------------------------------------------
\* The unit test: its targets and the text it expects
\* ------------------------------------------------------------------------

\* Shorthands for the paths of the expected text.
Obj(prefix, name, part) == Path("obj", "foo", prefix, name, part, "o")

Src(part, ext) == Path("src", "foo", "", "", part, ext)

\* A compile edge of the expected text:
\*   build obj/foo/<name>.<part>.o: <rule> ../../foo/<part>.<ext>
\*     source_name_part = <part>
Compiled(rule, prefix, name, part, ext, implicit, order_only) ==
  Edge("compile", rule, Obj(prefix, name, part), << Src(part, ext) >>,
       implicit, order_only, { << "source_name_part", part, "" >> })

\* The block of variables of the expected text, without precompiled header.
Variables(prefix, name) ==
  Edge("vars", "", NoPath, <<>>, <<>>, <<>>,
       { << "target_output_name", prefix, name >> })

\* TEST(NinjaBinaryTargetWriter, SourceSet): the source set //foo:bar.
SourceSetTarget ==
  [ Target("bar", "SOURCE_SET") EXCEPT
      !.sources = << SourceFile("foo", "input1", "cc"),
                     SourceFile("foo", "input2", "cc"),
                     SourceFile("foo", "input3", "o"),
                     SourceFile("foo", "input4", "obj"),
                     SourceFile("foo", "input5", "asm"),
                     SourceFile("foo", "input6", "s"),
                     SourceFile("foo", "input7", "arm"),
                     SourceFile("foo", "input8", "S") >> ]

\* The objects of //foo:bar as the stamp, link and archive edges list them.
SourceSetObjects ==
  << Obj("", "bar", "input1"), Obj("", "bar", "input2"), Src("input3", "o"),
     Src("input4", "obj"), Obj("", "bar", "input5"), Obj("", "bar", "input6"),
     Obj("", "bar", "input7") >>

BarStamp == Path("stamp", "foo", "", "bar", "", "stamp")

\* Each case of the unit test: the graph (the written target is TopT), the
\* toolchain, the text expected of Run() (checks_text tells whether the
\* test compares it) and whether the scheduler is failed afterwards.
UnitTest(graph, tc, checks_text, out, failed) ==
  [ graph |-> graph, tc |-> tc, checks_text |-> checks_text, out |-> out,
    failed |-> failed ]

\* "Source set itself."
SourceSetTest ==
  UnitTest(Graph(Leaf("EXECUTABLE"), Inter, Bar(<<>>), SourceSetTarget,
                 Plain("twin")),
           NoPchToolchain, TRUE,
           << Variables("", "bar"),
              Compiled("cxx", "", "bar", "input1", "cc", <<>>, <<>>),
              Compiled("cxx", "", "bar", "input2", "cc", <<>>, <<>>),
              Compiled("asm", "", "bar", "input5", "asm", <<>>, <<>>),
              Compiled("asm", "", "bar", "input6", "s", <<>>, <<>>),
              Compiled("asm", "", "bar", "input7", "arm", <<>>, <<>>),
              Edge("final", "stamp", BarStamp, SourceSetObjects, <<>>, <<>>,
                   {}) >>,
           FALSE)

\* "A shared library that depends on the source set."
SharedLibraryTest ==
  UnitTest(Graph(Leaf("EXECUTABLE"), Inter, SourceSetTarget,
                 [ Target("shlib", "SHARED_LIBRARY") EXCEPT
                     !.deps = << BarT >> ],
                 Plain("twin")),
           NoPchToolchain, TRUE,
           << Variables("lib", "shlib"),
              Edge("final", "solink",
                   Path("root", ".", "lib", "shlib", "", ".so"),
                   SourceSetObjects, <<>>, << BarStamp >>,
                   { << "output_extension", ".so", "" >> }) >>,
           FALSE)

\* "A static library that depends on the source set (should not link it)",
\* and the same library made 'complete'.
StaticLibraryTest(complete) ==
  UnitTest(Graph(Leaf("EXECUTABLE"), Inter, SourceSetTarget,
                 [ Target("stlib", "STATIC_LIBRARY") EXCEPT
                     !.deps = << BarT >>, !.complete_static_lib = complete ],
                 Plain("twin")),
           NoPchToolchain, TRUE,
           << Variables("lib", "stlib"),
              Edge("final", "alink",
                   Path("target", "foo", "lib", "stlib", "", ".a"),
                   IF complete THEN SourceSetObjects ELSE <<>>, <<>>,
                   << BarStamp >>, { << "output_extension", "", "" >> }) >>,
           FALSE)

\* TEST(NinjaBinaryTargetWriter, ProductExtensionAndInputDeps) with
\* set_output_extension("so.6") and the action as a dependency, and
\* TEST(NinjaBinaryTargetWriter, EmptyProductExtension) with
\* set_output_extension("") and no dependency.
ProductExtensionTest(ext) ==
  LET action_stamp == IF ext = "" THEN <<>>
                      ELSE << Path("stamp", "foo", "", "action", "",
                                   "stamp") >>
  IN UnitTest(Graph(Target("action", "ACTION_FOREACH"), Inter, Bar(<<>>),
                    [ Target("shlib", "SHARED_LIBRARY") EXCEPT
                        !.output_extension = ext, !.extension_set = TRUE,
                        !.sources = << SourceFile("foo", "input1", "cc"),
                                       SourceFile("foo", "input2", "cc") >>,
                        !.deps = IF ext = "" THEN <<>> ELSE << DataT >> ],
                    Plain("twin")),
              NoPchToolchain, TRUE,
              << Variables("lib", "shlib"),
                 Compiled("cxx", "lib", "shlib", "input1", "cc", <<>>,
                          action_stamp),
                 Compiled("cxx", "lib", "shlib", "input2", "cc", <<>>,
                          action_stamp),
                 Edge("final", "solink",
                      Path("root", ".", "lib", "shlib", "",
                           IF ext = "" THEN ".so" ELSE ".so.6"),
                      << Obj("lib", "shlib", "input1"),
                         Obj("lib", "shlib", "input2") >>,
                      <<>>, action_stamp,
                      { << "output_extension",
                           IF ext = "" THEN ".so" ELSE ".so.6", "" >> }) >>,
              FALSE)

\* TEST(NinjaBinaryTargetWriter, SourceSetDataDeps): "Write out the
\* intermediate target": the source set with the executable data_target as
\* its data dependency.
InterTest ==
  UnitTest(Graph(Leaf("EXECUTABLE"), Inter, Bar(<<>>), Inter, Plain("twin")),
           NoPchToolchain, TRUE,
           << Variables("", "inter"),
              Compiled("cxx", "", "inter", "inter", "cc", <<>>, <<>>),
              Edge("final", "stamp",
                   Path("stamp", "foo", "", "inter", "", "stamp"),
                   << Obj("", "inter", "inter") >>, <<>>,
                   << Path("root", ".", "", "data_target", "", "") >>,
                   {}) >>,
           FALSE)

\* An executable with the source final.cc and one dependency.
ExeOn(dep) ==
  [ Target("exe", "EXECUTABLE") EXCEPT
      !.sources = << SourceFile("foo", "final", "cc") >>,
      !.deps = << dep >> ]

\* TEST(NinjaBinaryTargetWriter, SourceSetDataDeps): "Final target".
DataDepsFinalTest ==
  UnitTest(Graph(Leaf("EXECUTABLE"), Inter, Bar(<<>>), ExeOn(InterT),
                 Plain("twin")),
           NoPchToolchain, TRUE,
           << Variables("", "exe"),
              Compiled("cxx", "", "exe", "final", "cc", <<>>, <<>>),
              Edge("final", "link", Path("root", ".", "", "exe", "", ""),
                   << Obj("", "exe", "final"), Obj("", "inter", "inter") >>,
                   <<>>,
                   << Path("stamp", "foo", "", "inter", "", "stamp") >>,
                   { << "output_extension", "", "" >> }) >>,
           FALSE)

\* TEST(NinjaBinaryTargetWriter, LoadableModule): "Final target", the
\* executable that depends on the loadable module //foo:bar.
LoadableModuleTest ==
  UnitTest(Graph([ Target("bar", "LOADABLE_MODULE") EXCEPT
                     !.sources = << SourceFile("foo", "sources", "cc") >> ],
                 Inter, Bar(<<>>), ExeOn(DataT), Plain("twin")),
           NoPchToolchain, TRUE,
           << Variables("", "exe"),
              Compiled("cxx", "", "exe", "final", "cc", <<>>, <<>>),
              Edge("final", "link", Path("root", ".", "", "exe", "", ""),
                   << Obj("", "exe", "final") >>, <<>>,
                   << Path("root", ".", "lib", "bar", "", ".so") >>,
                   { << "output_extension", "", "" >> }) >>,
           FALSE)

\* The source set of the precompiled-header tests: input1.cc and input2.c.
PchTestTarget(name, pch, source) ==
  [ Target(name, "SOURCE_SET") EXCEPT
      !.sources = << SourceFile("foo", "input1", "cc"),
                     SourceFile("foo", "input2", "c") >>,
      !.has_precompiled_header = pch, !.precompiled_source = source ]

\* TEST(NinjaBinaryTargetWriter, WinPrecompiledHeaders) and
\* TEST(NinjaBinaryTargetWriter, GCCPrecompiledHeaders): "This target
\* doesn't specify precompiled headers."
NoPchTest(type) ==
  UnitTest(Graph(Leaf("EXECUTABLE"), Inter, Bar(<<>>),
                 PchTestTarget("no_pch_target", FALSE, NoFile), Plain("twin")),
           [ C |-> type, CPP |-> type ], TRUE,
           << Variables("", "no_pch_target"),
              Compiled("cxx", "", "no_pch_target", "input1", "cc", <<>>, <<>>),
              Compiled("cc", "", "no_pch_target", "input2", "c", <<>>, <<>>),
              Edge("final", "stamp",
                   Path("stamp", "foo", "", "no_pch_target", "", "stamp"),
                   << Obj("", "no_pch_target", "input1"),
                      Obj("", "no_pch_target", "input2") >>,
                   <<>>, <<>>, {}) >>,
           FALSE)

\* "This target specifies PCH."  The precompiled-header edges come first,
\* the C one before the C++ one; each compile names the precompiled header
\* of its language after "|"; the stamp lists the MSVC .o files after the
\* objects and does not list the GCC .gch files.
PchTest(type) ==
  LET pch(ext) == Path("obj", "build", "", "pch_target", "precompile", ext)
      c == pch(IF type = "PCH_MSVC" THEN "c.o" ELSE "h-c.gch")
      cc == pch(IF type = "PCH_MSVC" THEN "cc.o" ELSE "h-cc.gch")
      flag == IF type = "PCH_MSVC" THEN "/Yc" ELSE "-x"
      source == IF type = "PCH_MSVC" THEN PrecompiledSource
                ELSE PrecompiledSourceGCC
      edge(rule, output, lang) ==
        Edge("pch", rule, output,
             << Path("src", "build", "", "", "precompile", source.ext) >>,
             <<>>, <<>>,
             { << "source_name_part", "precompile", "" >>,
               << flag, lang, "build/precompile.h" >> })
  IN UnitTest(Graph(Leaf("EXECUTABLE"), Inter, Bar(<<>>),
                    PchTestTarget("pch_target", TRUE, source),
                    Plain("twin")),
              [ C |-> type, CPP |-> type ], TRUE,
              << Edge("vars", "", NoPath, <<>>, <<>>, <<>>,
                      { << "target_output_name", "", "pch_target" >>,
                        << "use_pch", "C", "build/precompile.h" >>,
                        << "use_pch", "CPP", "build/precompile.h" >> }),
                 edge("cc", c, "C"),
                 edge("cxx", cc, "CPP"),
                 Compiled("cxx", "", "pch_target", "input1", "cc", << cc >>,
                          <<>>),
                 Compiled("cc", "", "pch_target", "input2", "c", << c >>,
                          <<>>),
                 Edge("final", "stamp",
                      Path("stamp", "foo", "", "pch_target", "", "stamp"),
                      << Obj("", "pch_target", "input1"),
                         Obj("", "pch_target", "input2") >>
                      \o (IF type = "PCH_MSVC" THEN << c, cc >> ELSE <<>>),
                      <<>>, <<>>, {}) >>,
              FALSE)

\* TEST(NinjaBinaryTargetWriter, DupeObjFileError): //a.cc listed twice in
\* an executable; the test looks at scheduler.is_failed() only.
DupeObjFileErrorTest ==
  UnitTest(Graph(Leaf("EXECUTABLE"), Inter, Bar(<<>>),
                 [ Target("bar", "EXECUTABLE") EXCEPT
                     !.sources = << SourceFile("", "a", "cc"),
                                    SourceFile("", "a", "cc") >> ],
                 Plain("twin")),
           NoPchToolchain, FALSE, <<>>, TRUE)

UnitTests ==
  { SourceSetTest, SharedLibraryTest, StaticLibraryTest(FALSE),
    StaticLibraryTest(TRUE), ProductExtensionTest("so.6"),
    ProductExtensionTest(""), InterTest, DataDepsFinalTest,
    LoadableModuleTest, NoPchTest("PCH_MSVC"), NoPchTest("PCH_GCC"),
    PchTest("PCH_MSVC"), PchTest("PCH_GCC"), DupeObjFileErrorTest }

\* The cases of the unit test as fixtures.
UnitTestFixtures == \E ut \in UnitTests : Fixture(ut.graph, ut.tc)

\* The states Run() starts from.
Fixtures ==
  \/ DepsFixtures
  \/ SourcesFixtures
  \/ PchFixtures
  \/ ExtensionFixtures
  \/ LinkingDepsFixtures
  \/ ClassificationFixtures
  \/ UnitTestFixtures

\* ------------------------------------------------------------------------
\* Scheduler
\* ------------------------------------------------------------------------

\* A Scheduler that keeps the error of the latest call.
LastFailureWins(s, err) == [ is_failed |-> TRUE, err |-> err ]

\* Scheduler::FailWithError, under the scheduler's lock: the first error
\* sets is_failed and is kept; the errors after it are ignored.
SchedulerFailWithError(s, err) ==
  IF s.is_failed THEN s ELSE [ is_failed |-> TRUE, err |-> err ]

\* ------------------------------------------------------------------------
\* NinjaBinaryTargetWriter::Run(), one action per step
\* ------------------------------------------------------------------------

\* The sections in the order the specification's concurrency section
\* gives them: the compile edges before the precompiled-header edges.
RunOrderCompilesFirst == << "vars", "sources", "pch", "final", "done" >>

\* The sections of Run() in the order they are written: the block of
\* variables, the precompiled-header edges, the compile edges, the final
\* edge.
RunOrder == << "vars", "pch", "sources", "final", "done" >>

\* A writer that gives up at the end of a section when the scheduler has
\* a failure of any target.
SectionAfterUnlessFailed(s) ==
  IF scheduler.is_failed THEN "failed"
  ELSE RunOrder[(CHOOSE i \in 1..Len(RunOrder) : RunOrder[i] = s) + 1]

\* The section after section s.
SectionAfter(s) ==
  RunOrder[(CHOOSE i \in 1..Len(RunOrder) : RunOrder[i] = s) + 1]

\* Where Run() goes when section s is next: a target without sources has
\* no compile edges to write.
Enter(t, s) ==
  IF s = "sources" /\ t.sources = <<>> THEN SectionAfter(s) ELSE s

\* A scheduler fresh from its constructor: not failed.
NewScheduler == [ is_failed |-> FALSE, err |-> NoErr ]

Init ==
  /\ Fixtures
  /\ writers = { TopT }
  /\ ws = [ w \in { TopT } |-> NewWriter ]
  /\ scheduler = NewScheduler
  /\ reported = <<>>

\* The block of variables opens the text.
WriteCompilerVars(w) ==
  /\ w \in writers
  /\ ws[w].pc = "vars"
  /\ ws' = [ ws EXCEPT ![w].out = << VarsBlock(targets[w], toolchain) >>,
                       ![w].pc = Enter(targets[w], SectionAfter("vars")) ]
  /\ UNCHANGED << targets, toolchain, writers, scheduler, reported >>

\* The output of a precompiled-header edge kept as an object file in
\* either mode.
PchObjectFilesEveryMode(tc, lang, output) == << output >>

\* The object files a precompiled-header edge gives the target: the output
\* of an MSVC-style edge is an object file, a .gch of a GCC-style edge is
\* not.
PchObjectFiles(tc, lang, output) ==
  IF tc[lang] = "PCH_MSVC" THEN << output >> ELSE <<>>

\* The precompiled-header edge of the next language, when the target has
\* one for it.  Its output becomes an implicit input of the compiles of
\* that language; an MSVC output is an object file as well.
WritePCHCommand(w) ==
  /\ w \in writers
  /\ ws[w].pc = "pch"
  /\ LET t == targets[w]
         lang == PchLanguages[ws[w].pchi]
         active == PchActive(t, toolchain, lang)
         output == PchOutput(t, toolchain, lang)
         last == ws[w].pchi = Len(PchLanguages)
     IN ws' = [ ws EXCEPT
          ![w].out = IF active THEN Append(@, PchEdge(t, toolchain, lang))
                     ELSE @,
          ![w].pch_deps[lang] = IF active THEN << output >> ELSE @,
          ![w].pch_obj_files =
             IF active THEN @ \o PchObjectFiles(toolchain, lang, output)
             ELSE @,
          ![w].pchi = IF last THEN @ ELSE @ + 1,
          ![w].pc = IF last THEN Enter(t, SectionAfter("pch")) ELSE "pch" ]
  /\ UNCHANGED << targets, toolchain, writers, scheduler, reported >>

\* The object file of a source: the tool's output for a compiled source,
\* the source itself for an object file.
ObjectFile(t, f) ==
  IF GetSourceFileType(f) = "O" THEN SourcePath(f) ELSE ObjectPath(t, f)

\* Whether a source gives the target an object file.
HasObjectFile(f) == IsCompiled(f) \/ GetSourceFileType(f) = "O"

\* A check that takes two object files of one directory for one file.
DuplicateObjectFileByDirectory(obj_files, obj) ==
  \E i \in 1..Len(obj_files) : obj_files[i].dir = obj.dir

\* No check: every object file passes.
DuplicateObjectFileUnchecked(obj_files, obj) == FALSE

\* Whether an object file is one the target already has.
DuplicateObjectFile(obj_files, obj) == obj \in Range(obj_files)

\* The next source.  A source whose object file is already assigned in
\* this target stops the writer with an error to report.  Else a compiled
\* source gets its compile edge and its object is kept, an object file is
\* kept under its own path, and any other source is skipped.
WriteSource(w) ==
  /\ w \in writers
  /\ ws[w].pc = "sources"
  /\ LET t == targets[w]
         f == t.sources[ws[w].idx]
         type == GetSourceFileType(f)
         obj == ObjectFile(t, f)
         pch == IF type \in Range(PchLanguages) THEN ws[w].pch_deps[type]
                ELSE <<>>
     IN IF HasObjectFile(f) /\ DuplicateObjectFile(ws[w].obj_files, obj)
        THEN ws' = [ ws EXCEPT ![w].pc = "dupe", ![w].err = Err(w, obj) ]
        ELSE ws' = [ ws EXCEPT
               ![w].out =
                  IF IsCompiled(f)
                  THEN Append(@, CompileEdge(t, f, pch,
                                             InputDeps(targets, t.deps)))
                  ELSE @,
               ![w].obj_files = IF HasObjectFile(f) THEN Append(@, obj) ELSE @,
               ![w].idx = @ + 1,
               ![w].pc = IF ws[w].idx = Len(t.sources)
                         THEN SectionAfter("sources") ELSE "sources" ]
  /\ UNCHANGED << targets, toolchain, writers, scheduler, reported >>

\* The duplicate object is reported to the scheduler; nothing more is
\* written for the target.
FailWithError(w) ==
  /\ w \in writers
  /\ ws[w].pc = "dupe"
  /\ scheduler' = SchedulerFailWithError(scheduler, ws[w].err)
  /\ reported' = Append(reported, ws[w].err)
  /\ ws' = [ ws EXCEPT ![w].pc = "failed" ]
  /\ UNCHANGED << targets, toolchain, writers >>

\* Link inputs with the objects of the dependencies in front of the
\* target's own.
LinkInputsDependenciesFirst(g, t, obj_files) ==
  GetDeps(g, t).objs \o obj_files

\* Stamp inputs that take in the objects of the source sets reached, as a
\* link edge does.
StampInputsWithDependencies(g, t, obj_files, pch_obj_files) ==
  obj_files \o pch_obj_files \o VisitDeps(g, t.deps, TRUE, NoDeps).objs

\* The inputs of a stamp edge: the objects of the target's own sources,
\* then its MSVC precompiled-header objects.  The objects of the source
\* sets it depends on are left to the targets that link.
StampInputs(g, t, obj_files, pch_obj_files) == obj_files \o pch_obj_files

\* The inputs of a link or archive edge: the objects of the target's own
\* sources, then the objects its dependencies give.
LinkInputs(g, t, obj_files) == obj_files \o GetDeps(g, t).objs

\* The stamp edge of a source set; order-only, what its dependencies give.
WriteSourceSetStamp(w) ==
  /\ w \in writers
  /\ ws[w].pc = "final"
  /\ targets[w].output_type = "SOURCE_SET"
  /\ LET t == targets[w]
         deps == GetDeps(targets, t)
     IN ws' = [ ws EXCEPT
          ![w].out = Append(@, StampEdge(t,
                              StampInputs(targets, t, ws[w].obj_files,
                                          ws[w].pch_obj_files),
                              deps.order_only)),
          ![w].pc = SectionAfter("final") ]
  /\ UNCHANGED << targets, toolchain, writers, scheduler, reported >>

\* The link or archive edge; order-only, what its dependencies give.
WriteLinkerStuff(w) ==
  /\ w \in writers
  /\ ws[w].pc = "final"
  /\ targets[w].output_type # "SOURCE_SET"
  /\ LET t == targets[w]
         deps == GetDeps(targets, t)
     IN ws' = [ ws EXCEPT
          ![w].out = Append(@, LinkEdge(t,
                              LinkInputs(targets, t, ws[w].obj_files),
                              deps.order_only)),
          ![w].pc = SectionAfter("final") ]
  /\ UNCHANGED << targets, toolchain, writers, scheduler, reported >>

Next ==
  \E w \in { TopT, TwinT } :
    \/ WriteCompilerVars(w)
    \/ WritePCHCommand(w)
    \/ WriteSource(w)
    \/ FailWithError(w)
    \/ WriteSourceSetStamp(w)
    \/ WriteLinkerStuff(w)

Spec == Init /\ [][Next]_vars

\* ------------------------------------------------------------------------
\* Two targets written at once
\* ------------------------------------------------------------------------

\* The kinds of the two targets written at once.
ConcurrentKinds ==
  { << "SHARED_LIBRARY", FALSE >>, << "STATIC_LIBRARY", TRUE >>,
    << "STATIC_LIBRARY", FALSE >>, << "SOURCE_SET", FALSE >> }

\* Two targets with the same dependencies, each with its own kind and
\* sources.
ConcurrentFixtures ==
  \E bar_deps \in BarDeps, deps \in { <<>>, << BarT >> },
     kind1 \in ConcurrentKinds, kind2 \in ConcurrentKinds,
     sources1 \in SeqsUpTo(FewSources, MaxSources),
     sources2 \in SeqsUpTo(FewSources, MaxSources) :
    Fixture(Graph(Leaf("EXECUTABLE"), Inter, Bar(bar_deps),
                  Written("top", kind1, sources1, deps, <<>>, FALSE, "",
                          FALSE),
                  Written("twin", kind2, sources2, deps, <<>>, FALSE, "",
                          FALSE)),
            NoPchToolchain)

\* The driver runs one writer per target; their steps interleave, and all
\* report to the one scheduler.
InitConcurrent ==
  /\ ConcurrentFixtures
  /\ writers = { TopT, TwinT }
  /\ ws = [ w \in { TopT, TwinT } |-> NewWriter ]
  /\ scheduler = NewScheduler
  /\ reported = <<>>

SpecConcurrent == InitConcurrent /\ [][Next]_vars

\* The steps of the writer of one target.
Run(w) ==
  \/ WriteCompilerVars(w)
  \/ WritePCHCommand(w)
  \/ WriteSource(w)
  \/ FailWithError(w)
  \/ WriteSourceSetStamp(w)
  \/ WriteLinkerStuff(w)

\* The kinds of two independent targets of one build: one that links and
\* one that stamps.
IndependentKinds == { << "EXECUTABLE", FALSE >>, << "SOURCE_SET", FALSE >> }

\* Two targets that do not depend on each other, each with its own kind
\* and sources.
IndependentFixtures ==
  \E deps \in { <<>>, << BarT >> },
     kind1 \in IndependentKinds, kind2 \in IndependentKinds,
     sources1 \in SeqsUpTo(FewSources, MaxSources),
     sources2 \in SeqsUpTo(FewSources, MaxSources) :
    Fixture(Graph(Leaf("EXECUTABLE"), Inter, Bar(<<>>),
                  Written("top", kind1, sources1, deps, <<>>, FALSE, "",
                          FALSE),
                  Written("twin", kind2, sources2, deps, <<>>, FALSE, "",
                          FALSE)),
            NoPchToolchain)

InitIndependent ==
  /\ IndependentFixtures
  /\ writers = { TopT, TwinT }
  /\ ws = [ w \in { TopT, TwinT } |-> NewWriter ]
  /\ scheduler = NewScheduler
  /\ reported = <<>>

\* Run() does not suspend: the worker of each target goes on until its
\* writer has written everything or has failed.
SpecIndependentFair ==
  /\ InitIndependent
  /\ [][Next]_vars
  /\ WF_vars(Run(TopT))
  /\ WF_vars(Run(TwinT))

\* ------------------------------------------------------------------------
\* Agreement with the unit test
\* ------------------------------------------------------------------------

\* A writer that has left Run(): all written, or stopped by an error.
Finished(w) == w \in writers /\ ws[w].pc \in { "done", "failed" }

\* In every case of the unit test, Run() writes the text the test expects
\* and leaves the scheduler as the test expects it.
UnitTestPasses ==
  \A ut \in UnitTests :
    (targets = ut.graph /\ toolchain = ut.tc /\ Finished(TopT)) =>
      /\ ut.checks_text => ws[TopT].out = ut.out
      /\ scheduler.is_failed = ut.failed

\* ------------------------------------------------------------------------
\* Properties of the written text
\* ------------------------------------------------------------------------

\* A writer whose Run() wrote everything.
Done(w) == w \in writers /\ ws[w].pc = "done"

\* The last block a writer wrote: for a writer that is Done, its link,
\* archive or stamp edge.
FinalEdge(w) == ws[w].out[Len(ws[w].out)]

\* The object a source stands for on a final edge.
ExpectedObject(t, f) ==
  IF f.ext \in { "o", "obj" } THEN SourcePath(f) ELSE ObjectPath(t, f)

\* The sources of a target that are compiled or passed through, in the
\* order declared, and the objects they stand for.
LinkedSources(t) ==
  SelectSeq(t.sources, LAMBDA f : GetSourceFileType(f) # "UNKNOWN")

ExpectedObjects(t) ==
  [ i \in 1..Len(LinkedSources(t)) |-> ExpectedObject(t, LinkedSources(t)[i]) ]

\* The source sets reached from a list of dependencies without passing
\* through a target of another kind, each once, in the order a depth-first
\* walk in declaration order first meets them.
RECURSIVE SourceSetsDepthFirst(_, _, _)
SourceSetsDepthFirst(g, deps, seen) ==
  IF deps = <<>> THEN seen
  ELSE LET d == Head(deps)
           after == IF g[d].output_type = "SOURCE_SET" /\ d \notin Range(seen)
                    THEN SourceSetsDepthFirst(g, g[d].deps, Append(seen, d))
                    ELSE seen
       IN SourceSetsDepthFirst(g, Tail(deps), after)

ReachedSourceSets(g, t) == SourceSetsDepthFirst(g, t.deps, <<>>)

\* The objects of a list of targets, target after target.
RECURSIVE ObjectsOfAll(_, _)
ObjectsOfAll(g, ids) ==
  IF ids = <<>> THEN <<>>
  ELSE ExpectedObjects(g[Head(ids)]) \o ObjectsOfAll(g, Tail(ids))

\* The objects of the source sets a target reaches.
DependencyObjects(g, t) == ObjectsOfAll(g, ReachedSourceSets(g, t))

\* ------------------------------------------------------------------------
\* C1
\* ------------------------------------------------------------------------

MsvcPchObjects(t, tc) ==
  LET of(lang) == IF PchActive(t, tc, lang) /\ tc[lang] = "PCH_MSVC"
                  THEN << PchOutput(t, tc, lang) >> ELSE <<>>
  IN of("C") \o of("CPP")

\* C2 as stated: a source set with N own sources that reaches M dependency
\* objects has a stamp edge of exactly N + M inputs, the own sources'
\* objects first, the dependency objects after them, none twice.
C2_StampListsOwnAndDependencyObjects ==
  \A w \in writers :
    (Done(w) /\ targets[w].output_type = "SOURCE_SET") =>
      LET t == targets[w]
          e == FinalEdge(w)
          n == Len(t.sources)
          dependency == DependencyObjects(targets, t)
      IN /\ Len(e.inputs) = n + Len(dependency)
         /\ SubSeq(e.inputs, n + 1, Len(e.inputs)) = dependency
         /\ NoDuplicates(e.inputs)

\* C2, amended: the stamp edge of a source set lists one input for each of
\* its own compiled or pass-through sources, in the order declared (a
\* source of an unrecognised kind gives none), then the outputs of its MSVC
\* precompiled-header edges; it lists no object of a dependency, and no
\* path twice.
C2_StampListsOwnObjects ==
  \A w \in writers :
    (Done(w) /\ targets[w].output_type = "SOURCE_SET") =>
      LET t == targets[w]
          e == FinalEdge(w)
      IN /\ e.rule = "stamp"
         /\ e.inputs = ExpectedObjects(t) \o MsvcPchObjects(t, toolchain)
         /\ Len(e.inputs) =
              Cardinality({ i \in 1..Len(t.sources) :
                              GetSourceFileType(t.sources[i]) # "UNKNOWN" })
              + Len(MsvcPchObjects(t, toolchain))
         /\ Range(e.inputs) \cap Range(DependencyObjects(targets, t)) = {}
         /\ NoDuplicates(e.inputs)

\* A source set with two own objects that depends on the source set bar,
\* which has objects, is written.
C2_Witness ==
  /\ Done(TopT)
  /\ targets[TopT].output_type = "SOURCE_SET"
  /\ targets[TopT].deps = << BarT >>
  /\ DependencyObjects(targets, targets[TopT]) # <<>>
  /\ Len(FinalEdge(TopT).inputs) = 2

\* ------------------------------------------------------------------------
\* C3
\* ------------------------------------------------------------------------

\* The inputs of a final edge after the target's own objects.
DependencyPart(t, e) ==
  SubSeq(e.inputs, Len(ExpectedObjects(t)) + 1, Len(e.inputs))

\* C3: the archive edge of a static library that is not complete lists no
\* object of a dependency and still has the stamp of every source set it
\* reaches as an order-only input; the archive edge of a complete static
\* library lists the dependency objects, in the order in which the link
\* edge of a shared library with the same sources and dependencies lists
\* them.
C3_StaticLibraryArchiveInputs ==
  /\ \A w \in writers :
       (Done(w) /\ targets[w].output_type = "STATIC_LIBRARY"
                /\ ~targets[w].complete_static_lib) =>
         LET t == targets[w]
             e == FinalEdge(w)
             sets == ReachedSourceSets(targets, t)
         IN /\ e.rule = "alink"
            /\ e.inputs = ExpectedObjects(t)
            /\ Range(e.inputs) \cap Range(DependencyObjects(targets, t)) = {}
            /\ \A i \in 1..Len(sets) :
                 StampFile(targets[sets[i]]) \in Range(e.order_only)
  /\ \A w \in writers, v \in writers :
       ( /\ Done(w) /\ Done(v)
         /\ targets[w].output_type = "STATIC_LIBRARY"
         /\ targets[w].complete_static_lib
         /\ targets[v].output_type = "SHARED_LIBRARY"
         /\ targets[w].sources = targets[v].sources
         /\ targets[w].deps = targets[v].deps ) =>
         /\ FinalEdge(w).rule = "alink"
         /\ DependencyPart(targets[w], FinalEdge(w))
              = DependencyPart(targets[v], FinalEdge(v))
         /\ DependencyPart(targets[w], FinalEdge(w))
              = DependencyObjects(targets, targets[w])

\* A complete static library and a shared library with the same source and
\* the same dependency on bar, which depends on inter, are both written,
\* and the archive edge lists the three dependency objects.
C3_Witness ==
  /\ Done(TopT) /\ Done(TwinT)
  /\ targets[TopT].output_type = "STATIC_LIBRARY"
  /\ targets[TopT].complete_static_lib
  /\ targets[TwinT].output_type = "SHARED_LIBRARY"
  /\ targets[TopT].sources = targets[TwinT].sources
  /\ Len(targets[TopT].sources) = 1
  /\ targets[TopT].deps = << BarT >>
  /\ targets[BarT].deps = << InterT >>
  /\ Len(DependencyPart(targets[TopT], FinalEdge(TopT))) = 3

\* ------------------------------------------------------------------------
\* C4
\* ------------------------------------------------------------------------

\* Two sources of the target have one object file: the same source twice,
\* or two compiled sources of one directory with the same name part.
SameObjectFile(t) ==
  \E i, j \in 1..Len(t.sources) :
    /\ i < j
    /\ HasObjectFile(t.sources[i])
    /\ HasObjectFile(t.sources[j])
    /\ ObjectFile(t, t.sources[i]) = ObjectFile(t, t.sources[j])

\* C4: is_failed() is false before any target is written, and once Run()
\* has returned for a target with two sources of one object output path
\* (in particular one source path listed twice) is_failed() is true.
C4_DuplicateObjectFails ==
  /\ (\A w \in writers : ws[w].pc = "vars") => ~scheduler.is_failed
  /\ \A w \in writers :
       (Finished(w) /\ SameObjectFile(targets[w])) => scheduler.is_failed

\* Run() has returned for a target that lists //foo/input1.cc twice.
C4_Witness ==
  /\ Finished(TopT)
  /\ targets[TopT].sources = << SourceFile("foo", "input1", "cc"),
                                SourceFile("foo", "input1", "cc") >>
  /\ scheduler.is_failed

\* ------------------------------------------------------------------------
\* C5
\* ------------------------------------------------------------------------

\* The compile edges of a writer's text whose source is f.
CompileEdgesOf(w, f) ==
  { i \in 1..Len(ws[w].out) :
      /\ ws[w].out[i].section = "compile"
      /\ ws[w].out[i].inputs = << SourcePath(f) >> }

\* C5 as stated: when two distinct sources of a target share a file stem,
\* Run() fails with a duplicate-output error and the text holds no compile
\* edge for either of the two.
C5_SharedStemFailsWithoutEdges ==
  \A w \in writers :
    Finished(w) =>
      \A i, j \in 1..Len(targets[w].sources) :
        LET f == targets[w].sources[i]
            h == targets[w].sources[j]
        IN (f # h /\ f.stem = h.stem /\ IsCompiled(f) /\ IsCompiled(h)) =>
             /\ ws[w].pc = "failed"
             /\ scheduler.is_failed
             /\ CompileEdgesOf(w, f) = {}
             /\ CompileEdgesOf(w, h) = {}

\* Whether the text of a writer holds a link, archive or stamp edge.
HasFinalEdge(w) ==
  \E i \in 1..Len(ws[w].out) : ws[w].out[i].section = "final"

\* Two compiled sources of the target have the same directory and the same
\* stem, whatever their extensions.
SameDirAndStem(t) ==
  \E i, j \in 1..Len(t.sources) :
    /\ i < j
    /\ IsCompiled(t.sources[i]) /\ IsCompiled(t.sources[j])
    /\ t.sources[i].dir = t.sources[j].dir
    /\ t.sources[i].stem = t.sources[j].stem

\* C5, amended: when two sources of a target have the same object output
\* path (the same directory and the same stem: a stem shared across
\* directories is no collision), Run() fails with a duplicate-output
\* error, and nothing is written for the target once the collision is
\* detected; in particular it gets no link, archive or stamp edge.  The
\* compile edges written before the detection stay in the text.
C5_DuplicateStopsEmission ==
  /\ [](\A w \in writers :
          (Finished(w) /\ SameDirAndStem(targets[w])) =>
            /\ ws[w].pc = "failed"
            /\ scheduler.is_failed
            /\ ~HasFinalEdge(w))
  /\ [][\A w \in writers :
          ws[w].pc \in { "dupe", "failed" } =>
            /\ ws'[w].out = ws[w].out
            /\ ws'[w].pc \in { "dupe", "failed" }]_vars

\* Run() has failed for a target with input1.cc and input1.c, two distinct
\* sources of one directory and one stem, after writing a compile edge.
C5_Witness ==
  /\ ws[TopT].pc = "failed"
  /\ targets[TopT].sources = << SourceFile("foo", "input1", "cc"),
                                SourceFile("foo", "input1", "c") >>
  /\ Len(ws[TopT].out) = 2
  /\ ws[TopT].out[2].section = "compile"

\* ------------------------------------------------------------------------
\* C6
\* ------------------------------------------------------------------------

\* The edges of a section of a writer's text with the rule of a language.
EdgesOf(w, section, lang) ==
  { i \in 1..Len(ws[w].out) :
      /\ ws[w].out[i].section = section
      /\ ws[w].out[i].rule = CompileRule(lang) }

\* C6: for a target that declares a precompiled header, and a language
\* whose tool has a precompiled-header mode, the text holds one
\* precompiled-header edge when a source of the language is compiled and
\* none when there is none, and every compile edge of the language has the
\* output of that edge as its implicit input and not as an order-only
\* input; for a target that declares no precompiled header the text holds
\* no precompiled-header edge and no compile edge has an implicit input.
C6_PrecompiledHeaderEdges ==
  \A w \in writers :
    Done(w) =>
      LET t == targets[w]
          out == ws[w].out
      IN /\ \A lang \in Range(PchLanguages) :
              (t.has_precompiled_header /\ toolchain[lang] # "PCH_NONE") =>
                /\ Cardinality(EdgesOf(w, "pch", lang))
                     = IF LanguageUsed(t, lang) THEN 1 ELSE 0
                /\ \A i \in EdgesOf(w, "compile", lang) :
                     \E j \in EdgesOf(w, "pch", lang) :
                       /\ out[i].implicit = << out[j].output >>
                       /\ out[j].output \notin Range(out[i].order_only)
         /\ ~t.has_precompiled_header =>
              \A i \in 1..Len(out) :
                /\ out[i].section # "pch"
                /\ out[i].implicit = <<>>

\* A target with a C++ and a C source and a precompiled header is written
\* under a toolchain with a GCC-style C++ compiler and an MSVC-style C
\* compiler: two precompiled-header edges, two compile edges.
C6_Witness ==
  /\ Done(TopT)
  /\ targets[TopT].has_precompiled_header
  /\ toolchain = [ C |-> "PCH_MSVC", CPP |-> "PCH_GCC" ]
  /\ targets[TopT].sources = << SourceFile("foo", "input1", "cc"),
                                SourceFile("foo", "input2", "c") >>
  /\ Cardinality(EdgesOf(TopT, "pch", "C")) = 1
  /\ Cardinality(EdgesOf(TopT, "pch", "CPP")) = 1
  /\ \A i \in EdgesOf(TopT, "compile", "C") :
       ws[TopT].out[i].implicit = << PchOutput(targets[TopT], toolchain, "C") >>

\* ------------------------------------------------------------------------
\* C7
\* ------------------------------------------------------------------------

\* The output kinds whose final edge is written by a linker.
LinkerKinds == { "EXECUTABLE", "SHARED_LIBRARY", "LOADABLE_MODULE" }

\* The value of output_extension under an edge.
WrittenExtension(e) ==
  { v[2] : v \in { x \in e.vars : x[1] = "output_extension" } }

\* C7 as stated: an override set to the empty string gives an empty
\* output_extension and an output without extension; an override left
\* unset gives the tool's default in both.
C7_EmptyOverrideMeansNoExtension ==
  \A w \in writers :
    (Done(w) /\ targets[w].output_type \in LinkerKinds) =>
      LET t == targets[w]
          e == FinalEdge(w)
      IN /\ (t.extension_set /\ t.output_extension = "") =>
              /\ WrittenExtension(e) = { "" }
              /\ e.output.ext = ""
         /\ ~t.extension_set =>
              /\ WrittenExtension(e) = { DefaultOutputExtension(t) }
              /\ e.output.ext = DefaultOutputExtension(t)

\* C7, amended: an override set to the empty string gives what an override
\* left unset gives: the tool's default for the output kind, in the
\* written output_extension and in the output of the link edge.
C7_EmptyOverrideMeansDefault ==
  \A w \in writers :
    (Done(w) /\ targets[w].output_type \in LinkerKinds
             /\ targets[w].output_extension = "") =>
      /\ WrittenExtension(FinalEdge(w)) = { DefaultOutputExtension(targets[w]) }
      /\ FinalEdge(w).output.ext = DefaultOutputExtension(targets[w])

\* A loadable module whose extension was set to the empty string is
\* written.
C7_Witness ==
  /\ Done(TopT)
  /\ targets[TopT].output_type = "LOADABLE_MODULE"
  /\ targets[TopT].extension_set
  /\ targets[TopT].output_extension = ""
  /\ FinalEdge(TopT).output.ext = ".so"

\* ------------------------------------------------------------------------
\* C8
\* ------------------------------------------------------------------------

\* C8: a shared library whose extension was set to the empty string gets
\* the output ./lib<name>.so and output_extension = .so, as one whose
\* extension was never set; the override so.6 gives ./lib<name>.so.6 and
\* output_extension = .so.6.
C8_SharedLibraryExtension ==
  \A w \in writers :
    (Done(w) /\ targets[w].output_type = "SHARED_LIBRARY") =>
      LET t == targets[w]
          e == FinalEdge(w)
          dotted == IF t.output_extension = "so.6" THEN ".so.6" ELSE ".so"
      IN /\ t.output_extension \in { "", "so.6" }
         /\ e.rule = "solink"
         /\ e.output = Path("root", ".", "lib", t.name, "", dotted)
         /\ << "output_extension", dotted, "" >> \in e.vars

\* A shared library whose extension was set to the empty string is
\* written.
C8_Witness ==
  /\ Done(TopT)
  /\ targets[TopT].output_type = "SHARED_LIBRARY"
  /\ targets[TopT].extension_set
  /\ targets[TopT].output_extension = ""
  /\ FinalEdge(TopT).output.ext = ".so"

\* ------------------------------------------------------------------------
\* C9
\* ------------------------------------------------------------------------

\* The sections of a text are in order when no block of a section comes
\* after a block of a section that order puts later.
InSectionOrder(out, order) ==
  \A i, j \in 1..Len(out) :
    i < j =>
      \A a, b \in 1..Len(order) :
        (out[i].section = order[a] /\ out[j].section = order[b]) => a <= b

\* C9 as stated: the block of variables, then the compile edges, then the
\* precompiled-header edges, then the final edge.
C9_CompileEdgesBeforePchEdges ==
  \A w \in writers :
    /\ InSectionOrder(ws[w].out, << "vars", "compile", "pch", "final" >>)
    /\ Done(w) => Cardinality({ i \in 1..Len(ws[w].out) :
                                  ws[w].out[i].section = "final" }) = 1

\* C9, amended: the block of variables, then the precompiled-header edges,
\* then the compile edges, then the one link, archive or stamp edge; no
\* block of an earlier section is written after a block of a later one.
C9_PchEdgesBeforeCompileEdges ==
  \A w \in writers :
    /\ InSectionOrder(ws[w].out, << "vars", "pch", "compile", "final" >>)
    /\ ws[w].out # <<>> => ws[w].out[1].section = "vars"
    /\ Done(w) => Cardinality({ i \in 1..Len(ws[w].out) :
                                  ws[w].out[i].section = "final" }) = 1

\* A text with all four sections: a precompiled-header edge, two compile
\* edges and the final edge after the block of variables.
C9_Witness ==
  /\ Done(TopT)
  /\ Len(ws[TopT].out) = 5
  /\ ws[TopT].out[2].section = "pch"
  /\ ws[TopT].out[3].section = "compile"
  /\ ws[TopT].out[4].section = "compile"
  /\ ws[TopT].out[5].section = "final"

\* ------------------------------------------------------------------------
\* C10
\* ------------------------------------------------------------------------

\* C10: with two targets written at once, under every interleaving the
\* scheduler is failed from the first report on and never returns to not
\* failed, and the error it holds is that of the first report: every later
\* report leaves it as it is.
C10_FirstFailureWins ==
  /\ [](scheduler.is_failed <=> reported # <<>>)
  /\ [](reported # <<>> => scheduler.err = reported[1])
  /\ [][scheduler.is_failed =>
          /\ scheduler'.is_failed
          /\ scheduler'.err = scheduler.err]_vars

\* Both writers have reported a duplicate object, the second after the
\* first, and the scheduler holds the error of the first.
C10_Witness ==
  /\ ws[TopT].pc = "failed" /\ ws[TwinT].pc = "failed"
  /\ Len(reported) = 2
  /\ reported[1] # reported[2]
  /\ reported[1].target = TwinT
  /\ scheduler.is_failed
  /\ scheduler.err = reported[1]

\* ------------------------------------------------------------------------
\* C11
\* ------------------------------------------------------------------------

\* The number of compiled sources in a list.
RECURSIVE CompiledCount(_)
CompiledCount(srcs) ==
  IF srcs = <<>> THEN 0
  ELSE (IF IsCompiled(Head(srcs)) THEN 1 ELSE 0) + CompiledCount(Tail(srcs))

\* The whole text of a target without precompiled headers: the block of
\* variables, a compile edge for each compiled source, the final edge.
CompleteOutput(w) ==
  /\ Done(w)
  /\ Len(ws[w].out) = CompiledCount(targets[w].sources) + 2
  /\ ws[w].out[1].section = "vars"
  /\ \A i \in 2..(Len(ws[w].out) - 1) : ws[w].out[i].section = "compile"
  /\ FinalEdge(w).section = "final"
  /\ FinalEdge(w).output = PrimaryOutput(targets[w])

\* C11: when the writer of one target fails on a duplicate object the
\* scheduler is failed, and the writer of every other target still runs:
\* one whose target has no two sources of one object file is never failed
\* and does write its whole text, whether the failing writer runs before
\* it, after it or in between its steps.
C11_OtherTargetsStillWritten ==
  /\ [](\A w \in writers : ws[w].pc = "failed" => scheduler.is_failed)
  /\ \A w \in { TopT, TwinT } :
       /\ [](~SameObjectFile(targets[w]) => ws[w].pc \notin { "dupe", "failed" })
       /\ ~SameObjectFile(targets[w]) ~> CompleteOutput(w)
  /\ [][\A w \in writers : CompleteOutput(w) => ws'[w] = ws[w]]_vars

\* The writer of twin has failed and reported before the writer of top
\* wrote its final edge, and top has its whole text of four blocks.
C11_Witness ==
  /\ ws[TwinT].pc = "failed"
  /\ scheduler.is_failed
  /\ scheduler.err.target = TwinT
  /\ CompleteOutput(TopT)
  /\ Len(ws[TopT].out) = 3
  /\ targets[TopT].deps = << BarT >>

\* ------------------------------------------------------------------------
\* C12
\* ------------------------------------------------------------------------

\* What a dependent names for a target: the stamp of a source set or an
\* action, else the file the linker or the archiver writes.
NamedOutput(t) ==
  IF t.output_type \in { "SOURCE_SET", "ACTION_FOREACH" }
  THEN Path("stamp", t.dir, "", t.name, "", "stamp")
  ELSE LinkOutput(t)

\* The stamp of a source set is no input of a dependent's final edge and
\* is one of its order-only inputs.
SourceSetsStayOrderOnly(w) ==
  LET sets == ReachedSourceSets(targets, targets[w])
  IN \A i \in 1..Len(sets) :
       /\ NamedOutput(targets[sets[i]]) \notin Range(FinalEdge(w).inputs)
       /\ NamedOutput(targets[sets[i]]) \in Range(FinalEdge(w).order_only)

\* The stamp edge of a source set has the outputs of its data dependencies
\* as order-only inputs and not as inputs.
StampWaitsForDataDeps(w) ==
  \A i \in 1..Len(targets[w].data_deps) :
    LET d == targets[targets[w].data_deps[i]]
    IN /\ NamedOutput(d) \in Range(FinalEdge(w).order_only)
       /\ NamedOutput(d) \notin Range(FinalEdge(w).inputs)

\* C12 as stated: the stamp of a source set is never an input of a
\* dependent's link edge, the stamp edge of a source set has the outputs
\* of its data dependencies as order-only inputs, and the link edge of
\* every target downstream of a source set has the outputs of the source
\* set's data dependencies as order-only inputs.
C12_DataDepsOnDownstreamLinkEdges ==
  \A w \in writers :
    Done(w) =>
      /\ targets[w].output_type = "SOURCE_SET" => StampWaitsForDataDeps(w)
      /\ targets[w].output_type # "SOURCE_SET" =>
           /\ SourceSetsStayOrderOnly(w)
           /\ LET sets == ReachedSourceSets(targets, targets[w])
              IN \A i \in 1..Len(sets) :
                   \A j \in 1..Len(targets[sets[i]].data_deps) :
                     NamedOutput(targets[targets[sets[i]].data_deps[j]])
                       \in Range(FinalEdge(w).order_only)

\* C12, amended: the stamp of a source set is never an input of a
\* dependent's link edge, and the stamp edge of a source set has the
\* outputs of its data dependencies as order-only inputs; the link edge of
\* a target downstream has the stamp of the source set as an order-only
\* input, and has the output of a data dependency of the source set only
\* when the target itself names that dependency: the data dependency is
\* waited for through the stamp.
C12_DataDepsBehindTheStamp ==
  \A w \in writers :
    Done(w) =>
      /\ targets[w].output_type = "SOURCE_SET" => StampWaitsForDataDeps(w)
      /\ targets[w].output_type # "SOURCE_SET" =>
           /\ SourceSetsStayOrderOnly(w)
           /\ LET t == targets[w]
                  sets == ReachedSourceSets(targets, t)
              IN \A i \in 1..Len(sets) :
                   \A j \in 1..Len(targets[sets[i]].data_deps) :
                     LET d == targets[sets[i]].data_deps[j]
                     IN NamedOutput(targets[d]) \in Range(FinalEdge(w).order_only)
                          <=> d \in Range(t.deps) \cup Range(t.data_deps)

\* An executable that depends on the source set inter, whose data
\* dependency it does not name, is written: its link edge has the object
\* of inter as an input and the stamp of inter as its one order-only input.
C12_Witness ==
  /\ Done(TopT)
  /\ targets[TopT].output_type = "EXECUTABLE"
  /\ targets[TopT].deps = << InterT >>
  /\ targets[TopT].data_deps = <<>>
  /\ targets[InterT].data_deps = << DataT >>
  /\ FinalEdge(TopT).order_only = << NamedOutput(targets[InterT]) >>
  /\ Len(FinalEdge(TopT).inputs) = 1

\* ------------------------------------------------------------------------
\* C13
\* ------------------------------------------------------------------------

\* The object files of the sources of a target, under the tool's template
\* or under their own path.
ObjectsOf(t) ==
  { Path("obj", t.sources[i].dir, OutputNamePrefix(t), t.name,
         t.sources[i].stem, "o") : i \in 1..Len(t.sources) }
  \cup { Path("src", t.sources[i].dir, "", "", t.sources[i].stem,
              t.sources[i].ext) : i \in 1..Len(t.sources) }

\* The source sets a target reaches that the written target does not reach
\* by itself.
ReachedOnlyThrough(g, d, t) ==
  Range(ReachedSourceSets(g, d)) \ Range(ReachedSourceSets(g, t))

CompiledExtensions == { "cc", "cpp", "cxx", "c", "asm", "s", "arm" }

ObjectExtensions == { "o", "obj" }

\* What a list of sources gives the final edge, by extension: the object
\* of a compiled source, an object file under its own path, nothing else.
RECURSIVE InputsByExtension(_, _)
InputsByExtension(t, srcs) ==
  IF srcs = <<>> THEN <<>>
  ELSE LET f == Head(srcs)
           first ==
             IF f.ext \in CompiledExtensions
             THEN << Path("obj", f.dir, OutputNamePrefix(t), t.name, f.stem,
                          "o") >>
             ELSE IF f.ext \in ObjectExtensions
             THEN << Path("src", f.dir, "", "", f.stem, f.ext) >>
             ELSE <<>>
       IN first \o InputsByExtension(t, Tail(srcs))

\* C14: the extension decides, letter case included: a .cc, .cpp, .cxx,
\* .c, .asm, .s or .arm source has one compile edge and its object among
\* the inputs of the final edge; a .o or .obj source has no compile edge
\* and is among the inputs under its own path, at its place in the order
\* of the sources; a source of any other extension, .S in upper case for
\* one, has no compile edge and nothing among the inputs.
C14_ClassifiedByExtension ==
  \A w \in writers :
    Done(w) =>
      LET t == targets[w]
          e == FinalEdge(w)
          own == InputsByExtension(t, t.sources)
      IN /\ Len(e.inputs) >= Len(own)
         /\ SubSeq(e.inputs, 1, Len(own)) = own
         /\ \A i \in 1..Len(t.sources) :
              Cardinality({ k \in 1..Len(ws[w].out) :
                              /\ ws[w].out[k].section = "compile"
                              /\ ws[w].out[k].inputs
                                   = << Path("src", t.sources[i].dir, "", "",
                                             t.sources[i].stem,
                                             t.sources[i].ext) >> })
                = IF t.sources[i].ext \in CompiledExtensions THEN 1 ELSE 0
         /\ Cardinality({ k \in 1..Len(ws[w].out) :
                            ws[w].out[k].section = "compile" })
              = Cardinality({ i \in 1..Len(t.sources) :
                                t.sources[i].ext \in CompiledExtensions })

\* A source set with input8.S and input4.obj is written: no compile edge,
\* and the stamp has the object file as its one input.
C14_Witness ==
  /\ Done(TopT)
  /\ targets[TopT].sources = << SourceFile("foo", "input8", "S"),
                                SourceFile("foo", "input4", "obj") >>
  /\ Len(ws[TopT].out) = 2
  /\ FinalEdge(TopT).inputs = << Path("src", "foo", "", "", "input4", "obj") >>

\* ------------------------------------------------------------------------
\* C15
\* ------------------------------------------------------------------------

\* The precompiled-header edges of a writer's text, by their place in it.
PchEdges(w) ==
  { k \in 1..Len(ws[w].out) : ws[w].out[k].section = "pch" }

\* The places of a path among the inputs of the final edge.
PlacesAmongInputs(w, path) ==
  { i \in 1..Len(FinalEdge(w).inputs) : FinalEdge(w).inputs[i] = path }

\* The number of the sources of a target that give it an object.
OwnObjectCount(t) ==
  Cardinality({ i \in 1..Len(t.sources) :
                  t.sources[i].ext \in CompiledExtensions \cup ObjectExtensions })

\* The final edge of a target that links or archives has no output of a
\* precompiled-header edge among its inputs.
NoPchOutputLinked(w) ==
  \A k \in PchEdges(w) : PlacesAmongInputs(w, ws[w].out[k].output) = {}

\* C15 as stated: the stamp edge of a source set has the output of each of
\* its precompiled-header edges among its inputs, after the ordinary
\* objects, in MSVC mode and in GCC mode; a link or archive edge has none.
C15_PchOutputsOnStampInBothModes ==
  \A w \in writers :
    Done(w) =>
      IF targets[w].output_type = "SOURCE_SET"
      THEN \A k \in PchEdges(w) :
             /\ PlacesAmongInputs(w, ws[w].out[k].output) # {}
             /\ \A i \in PlacesAmongInputs(w, ws[w].out[k].output) :
                  i > OwnObjectCount(targets[w])
      ELSE NoPchOutputLinked(w)

\* The mode of the tool whose rule an edge has.
ModeOfRule(rule) == IF rule = "cc" THEN toolchain["C"] ELSE toolchain["CPP"]

\* C15, amended: the stamp edge of a source set has the output of each of
\* its MSVC-style precompiled-header edges among its inputs, once, after
\* the ordinary objects; the .gch output of a GCC-style edge is not among
\* them; a link or archive edge has no precompiled-header output among
\* its inputs.
C15_MsvcPchOutputsOnStamp ==
  \A w \in writers :
    Done(w) =>
      IF targets[w].output_type = "SOURCE_SET"
      THEN \A k \in PchEdges(w) :
             LET places == PlacesAmongInputs(w, ws[w].out[k].output)
             IN IF ModeOfRule(ws[w].out[k].rule) = "PCH_MSVC"
                THEN /\ Cardinality(places) = 1
                     /\ \A i \in places : i > OwnObjectCount(targets[w])
                ELSE places = {}
      ELSE NoPchOutputLinked(w)

\* A source set with a C++ and a C source is written under an MSVC-style
\* C++ compiler and a GCC-style C compiler: two precompiled-header edges,
\* and the stamp has the two objects and the C++ precompiled object.
C15_Witness ==
  /\ Done(TopT)
  /\ targets[TopT].output_type = "SOURCE_SET"
  /\ targets[TopT].sources = << SourceFile("foo", "input1", "cc"),
                                SourceFile("foo", "input2", "c") >>
  /\ toolchain = [ C |-> "PCH_GCC", CPP |-> "PCH_MSVC" ]
  /\ Cardinality(PchEdges(TopT)) = 2
  /\ Len(FinalEdge(TopT).inputs) = 3
  /\ FinalEdge(TopT).inputs[3] = PchOutput(targets[TopT], toolchain, "CPP")

\* ------------------------------------------------------------------------
\* C16
\* ------------------------------------------------------------------------

\* Two compiled sources of the target have one object output path.
SameCompiledOutput(t) ==
  \E i, j \in 1..Len(t.sources) :
    /\ i < j
    /\ t.sources[i].ext \in CompiledExtensions
    /\ t.sources[j].ext \in CompiledExtensions
    /\ t.sources[i].dir = t.sources[j].dir
    /\ t.sources[i].stem = t.sources[j].stem

\* The writer of a target has reported no failure.
NothingReportedBy(w) ==
  /\ ws[w].pc \notin { "dupe", "failed" }
  /\ \A i \in 1..Len(reported) : reported[i].target # w

\* C16 as stated: the writer of a target whose compiled sources have
\* pairwise distinct object output paths reports no failure, and the
\* scheduler is failed only when the compiled sources of some target
\* collide.
C16_DistinctCompiledOutputsNoFailure ==
  /\ \A w \in writers : ~SameCompiledOutput(targets[w]) => NothingReportedBy(w)
  /\ scheduler.is_failed => \E w \in writers : SameCompiledOutput(targets[w])

\* C16, amended: the writer of a target whose object files (the outputs of
\* its compiled sources and its object-file sources under their own paths)
\* are pairwise distinct reports no failure: no step of it changes the
\* scheduler's flag or error, and the scheduler is failed only when two
\* sources of some target have one object file, with the error of such a
\* target.
C16_DistinctObjectFilesNoFailure ==
  /\ [](\A w \in writers : ~SameObjectFile(targets[w]) => NothingReportedBy(w))
  /\ [](scheduler.is_failed =>
          \E w \in writers :
            SameObjectFile(targets[w]) /\ scheduler.err.target = w)
  /\ [][\A w \in writers :
          (~SameObjectFile(targets[w]) /\ ws'[w] # ws[w]) =>
            scheduler' = scheduler /\ reported' = reported]_vars

\* The writer of top, whose two sources have two object files, has written
\* its whole text while the writer of twin failed: the one failure the
\* scheduler has is that of twin.
C16_Witness ==
  /\ Done(TopT)
  /\ targets[TopT].sources = << SourceFile("foo", "input1", "cc"),
                                SourceFile("foo", "input3", "o") >>
  /\ ws[TwinT].pc = "failed"
  /\ reported = << scheduler.err >>
  /\ scheduler.err.target = TwinT

====
